---------------------------- MODULE Spec2Model ----------------------------
(***************************************************************************)
(* A model of the day-timeline scheduler of app.py: the clock conversions  *)
(* parse_hhmm_to_minutes / minutes_to_hhmm, the task store of JournalDB    *)
(* and refresh_timeline (classifier, packer, assembler walk).              *)
(*                                                                         *)
(* Text is modelled as a sequence of one-character strings, so that        *)
(* parsing and formatting are computed character by character.             *)
(* estimated_hours is held in thousandths of an hour (HourScale).          *)
(***************************************************************************)
EXTENDS Integers, Sequences, FiniteSets, TLC

VARIABLES
    db_tasks,          \* rows of table tasks (JournalDB.conn)
    db_seq,            \* AUTOINCREMENT counter of table tasks
    day_start_input,   \* day_start_input.value, the text field
    timeline,          \* timeline_column.controls
    pc,                \* position inside refresh_timeline: idle, classify, pack, walk (raised: an exception left it)
    tasks,             \* refresh_timeline's argument
    day_start_minutes, \* local of refresh_timeline
    fixed_intervals,   \* local of refresh_timeline
    unscheduled,       \* local of refresh_timeline
    unscheduled_sorted,\* local of refresh_timeline
    occupied,          \* local of refresh_timeline
    packed_intervals,  \* local of refresh_timeline
    not_placed_count,  \* local of refresh_timeline
    intervals,         \* local of refresh_timeline
    k,                 \* index of the packing loop (line 665)
    j,                 \* index of the assembler loop (line 728)
    cursor,            \* local of the assembler walk
    shown,             \* history: the day-start text the last finished pass read
    prev,              \* history: the previous output, while a pass repeats its inputs
    clock_in,          \* argument given to minutes_to_hhmm
    clock_text,        \* text returned by minutes_to_hhmm
    clock_out          \* result of parse_hhmm_to_minutes on clock_text

vars == <<db_tasks, db_seq, day_start_input, timeline, pc, tasks,
          day_start_minutes, fixed_intervals, unscheduled,
          unscheduled_sorted, occupied, packed_intervals, not_placed_count, intervals, k, j, cursor,
          shown, prev, clock_in, clock_text, clock_out>>

schedVars == <<db_tasks, db_seq, day_start_input, timeline, pc, tasks,
               day_start_minutes, fixed_intervals, unscheduled,
               unscheduled_sorted, occupied, packed_intervals, not_placed_count, intervals, k, j,
               cursor, shown, prev>>

clockVars == <<clock_in, clock_text, clock_out>>

-----------------------------------------------------------------------------
(* Bounds of the model *)

\* number of rows ever inserted into table tasks
MaxTasks == 3

\* minutes_to_hhmm is tried on -ClockSlack .. 24*60 + ClockSlack
ClockSlack == 40

\* rows in the store when a pass is examined on its own
MaxRows == 3

\* tasks ever added when the store is examined on its own
MaxStoreTasks == 3

-----------------------------------------------------------------------------
(* Program constants *)

TASK_TYPE_ORDER == <<"focus", "main", "small", "pleasure", "reserved">>

TASK_TYPE_LABELS == {"focus", "main", "small", "pleasure", "reserved"}

day_end == 24 * 60

\* estimated_hours values are integers counting 1/HourScale hours
HourScale == 1000

-----------------------------------------------------------------------------
(* Values: exceptions and optional results *)

Ok(v) == [ok |-> TRUE, val |-> v]

ValueError == [ok |-> FALSE, val |-> 0]

None == [ok |-> FALSE, val |-> 0]

TASK_TYPE_LIMITS ==
    [focus |-> Ok(1), main |-> Ok(2), small |-> None, pleasure |-> None,
     reserved |-> None]

-----------------------------------------------------------------------------
(* Text *)

Digits == <<"0", "1", "2", "3", "4", "5", "6", "7", "8", "9">>

IsDigit(c) == \E d \in 1..10 : Digits[d] = c

DigitValue(c) == (CHOOSE d \in 1..10 : Digits[d] = c) - 1

DigitChar(d) == Digits[d + 1]

\* byte value of a character, as SQLite's BINARY collation compares text
CharCode(c) ==
    CASE c = " " -> 32
      [] c = "+" -> 43
      [] c = "-" -> 45
      [] IsDigit(c) -> 48 + DigitValue(c)
      [] c = ":" -> 58
      [] c = "a" -> 97
      [] c = "b" -> 98
      [] c = "d" -> 100
      [] OTHER -> 120

\* str.strip(): leading and trailing blanks removed
RECURSIVE LStrip(_)
LStrip(s) ==
    IF s # <<>> /\ Head(s) = " " THEN LStrip(Tail(s)) ELSE s

RECURSIVE RStrip(_)
RStrip(s) ==
    IF s # <<>> /\ s[Len(s)] = " " THEN RStrip(SubSeq(s, 1, Len(s) - 1)) ELSE s

Strip(s) == RStrip(LStrip(s))

\* str.split(":"): the pieces between the separators
RECURSIVE Split(_, _)
Split(s, acc) ==
    IF s = <<>> THEN <<acc>>
    ELSE IF Head(s) = ":" THEN <<acc>> \o Split(Tail(s), <<>>)
    ELSE Split(Tail(s), Append(acc, Head(s)))

RECURSIVE DigitsValue(_, _)
DigitsValue(s, acc) ==
    IF s = <<>> THEN acc
    ELSE DigitsValue(Tail(s), acc * 10 + DigitValue(Head(s)))

\* int(text): blanks around, an optional sign, then decimal digits
ParseInt(text) ==
    LET s == Strip(text)
        signed == s # <<>> /\ Head(s) \in {"+", "-"}
        body == IF signed THEN Tail(s) ELSE s
    IN  IF body = <<>> \/ \E i \in 1..Len(body) : ~IsDigit(body[i])
        THEN ValueError
        ELSE IF signed /\ Head(s) = "-"
             THEN Ok(0 - DigitsValue(body, 0))
             ELSE Ok(DigitsValue(body, 0))

\* f"{n:02d}" for n >= 0
RECURSIVE Decimal(_)
Decimal(n) ==
    IF n < 10 THEN <<DigitChar(n)>>
    ELSE Append(Decimal(n \div 10), DigitChar(n % 10))

Pad2(n) == IF n < 10 THEN <<"0">> \o Decimal(n) ELSE Decimal(n)

-----------------------------------------------------------------------------
(* Clock conversions *)

Max(a, b) == IF a >= b THEN a ELSE b

Min(a, b) == IF a <= b THEN a ELSE b

parse_hhmm_to_minutes(value) ==
    LET clean == Strip(value)
        parts == Split(clean, <<>>)
    IN  IF clean = <<>> THEN ValueError
        ELSE IF Len(parts) # 2 THEN ValueError
        ELSE LET hour == ParseInt(parts[1])
                 minute == ParseInt(parts[2])
             IN  IF ~hour.ok \/ ~minute.ok THEN ValueError
                 ELSE IF hour.val < 0 \/ hour.val > 23
                         \/ minute.val < 0 \/ minute.val > 59
                      THEN ValueError
                      ELSE Ok((hour.val * 60) + minute.val)


\* mutant: hour and minute computed the wrong way round
minutes_to_hhmm_swapped(minutes) ==
    LET clipped == Max(0, Min(24 * 60, minutes))
        hour == clipped % 60
        minute == clipped \div 60
    IN  IF clipped = 24 * 60 THEN <<"2", "4", ":", "0", "0">>
        ELSE Pad2(hour) \o <<":">> \o Pad2(minute)

\* mutant: clamps to the last minute of the day
minutes_to_hhmm_to_2359(minutes) ==
    LET clipped == Max(0, Min(24 * 60 - 1, minutes))
        hour == clipped \div 60
        minute == clipped % 60
    IN  IF clipped = 24 * 60 THEN <<"2", "4", ":", "0", "0">>
        ELSE Pad2(hour) \o <<":">> \o Pad2(minute)

minutes_to_hhmm(minutes) ==
    LET clipped == Max(0, Min(24 * 60, minutes))
        hour == clipped \div 60
        minute == clipped % 60
    IN  IF clipped = 24 * 60 THEN <<"2", "4", ":", "0", "0">>
        ELSE Pad2(hour) \o <<":">> \o Pad2(minute)

-----------------------------------------------------------------------------
(* Inputs the operations are tried on *)

NoText == <<>>

Blank == <<" ", " ">>

T0800 == <<"0", "8", ":", "0", "0">>

T0900 == <<"0", "9", ":", "0", "0">>

T0930 == <<"0", "9", ":", "3", "0">>

T1000 == <<"1", "0", ":", "0", "0">>

\* hour out of range
T2400 == <<"2", "4", ":", "0", "0">>

\* no separator
BadText == <<"b", "a", "d">>

\* what is typed into the day-start field
DayStartInputs == {Blank, T2400, T0800}

TaskIn(type, title, hours, start) ==
    [task_type |-> type, title |-> title, estimated_hours |-> hours,
     start_time |-> start]

\* (type, title, estimated_hours in 1/HourScale h, start_time) given to
\* add_task: tasks left unscheduled by each of the classifier's four branches,
\* fixed tasks that overlap, nest, end by 09:00 or start before it and run to
\* midnight, and arguments the store rejects.
TaskInputs ==
    { TaskIn("small", <<"a">>, 1000, NoText),
      TaskIn("main", <<"a">>, 500, NoText),
      TaskIn("small", <<"a">>, 1000, BadText),
      TaskIn("small", <<"a">>, 0, NoText),
      TaskIn("small", <<"a">>, 5, T0930),
      TaskIn("small", <<"a">>, 1000, T0930),
      TaskIn("focus", <<"a">>, 1000, T1000),
      TaskIn("small", <<"a">>, 1000, T0800),
      TaskIn("small", <<"a">>, 17000, T0800),
      TaskIn("bogus", <<"a">>, 1000, NoText),
      TaskIn("small", <<" ">>, 1000, NoText),
      TaskIn("small", <<"a">>, 0 - 500, NoText) }

\* current_day stays at date.today() in this model
current_day == "today"

-----------------------------------------------------------------------------
(* JournalDB: table tasks *)

Row(id, day, type, hours, start) ==
    [id |-> id, day |-> day, task_type |-> type, estimated_hours |-> hours,
     start_time |-> start]

\* lexicographic comparison of two texts, byte by byte
RECURSIVE TextLess(_, _)
TextLess(a, b) ==
    IF b = <<>> THEN FALSE
    ELSE IF a = <<>> THEN TRUE
    ELSE IF CharCode(Head(a)) # CharCode(Head(b))
         THEN CharCode(Head(a)) < CharCode(Head(b))
         ELSE TextLess(Tail(a), Tail(b))

\* position of a task type in TASK_TYPE_ORDER, len(TASK_TYPE_ORDER) if absent
TypeRank(type) ==
    IF \E i \in 1..Len(TASK_TYPE_ORDER) : TASK_TYPE_ORDER[i] = type
    THEN (CHOOSE i \in 1..Len(TASK_TYPE_ORDER) : TASK_TYPE_ORDER[i] = type) - 1
    ELSE Len(TASK_TYPE_ORDER)

\* the ORDER BY of list_tasks: CASE task_type, start_time or '99:99', id
ListKeyStart(r) ==
    IF r.start_time = <<>> THEN <<"9", "9", ":", "9", "9">> ELSE r.start_time

ListOrderLess(a, b) ==
    LET ra == IF a.task_type \in TASK_TYPE_LABELS THEN TypeRank(a.task_type) ELSE 9
        rb == IF b.task_type \in TASK_TYPE_LABELS THEN TypeRank(b.task_type) ELSE 9
    IN  \/ ra < rb
        \/ ra = rb /\ TextLess(ListKeyStart(a), ListKeyStart(b))
        \/ ra = rb /\ ListKeyStart(a) = ListKeyStart(b) /\ a.id < b.id

list_tasks(rows, day) ==
    LET mine == {r \in rows : r.day = day}
        pos(r) == 1 + Cardinality({q \in mine : ListOrderLess(q, r)})
    IN  [p \in 1..Cardinality(mine) |->
            LET r == CHOOSE q \in mine : pos(q) = p
            IN  [r EXCEPT !.task_type =
                    IF r.task_type \in TASK_TYPE_LABELS THEN r.task_type
                    ELSE "small"]]

validate_task_type_limit(rows, day, task_type, exclude_task_id) ==
    LET limit == TASK_TYPE_LIMITS[task_type]
        count == Cardinality({r \in rows : /\ r.day = day
                                           /\ r.task_type = task_type
                                           /\ (exclude_task_id.ok =>
                                                 r.id # exclude_task_id.val)})
    IN  IF ~limit.ok THEN TRUE ELSE ~(count >= limit.val)

\* add_task accepts its arguments (every early return passed)
add_task_ok(rows, day, task_type, title, estimated_hours) ==
    /\ task_type \in TASK_TYPE_LABELS
    /\ Strip(title) # <<>>
    /\ ~(estimated_hours < 0)
    /\ validate_task_type_limit(rows, day, task_type, None)

\* the rows after add_task
add_task(rows, id, day, task_type, title, estimated_hours, start_time) ==
    IF add_task_ok(rows, day, task_type, title, estimated_hours)
    THEN rows \cup {Row(id, day, task_type, estimated_hours, Strip(start_time))}
    ELSE rows

update_task_ok(rows, task_id, day, task_type, title, estimated_hours) ==
    /\ task_type \in TASK_TYPE_LABELS
    /\ Strip(title) # <<>>
    /\ ~(estimated_hours < 0)
    /\ validate_task_type_limit(rows, day, task_type, Ok(task_id))

\* the rows after update_task: the UPDATE sets every column but id and day
update_task(rows, task_id, day, task_type, title, estimated_hours, start_time) ==
    IF update_task_ok(rows, task_id, day, task_type, title, estimated_hours)
    THEN {IF r.id = task_id
          THEN Row(r.id, r.day, task_type, estimated_hours, Strip(start_time))
          ELSE r : r \in rows}
    ELSE rows

delete_task(rows, task_id) == {r \in rows : r.id # task_id}

-----------------------------------------------------------------------------
(* refresh_timeline: helpers *)

\* sorted(seq, key=...): stable, Less compares the keys
StableSort(seq, Less(_, _)) ==
    LET n == Len(seq)
        pos(i) == 1 + Cardinality({h \in 1..n :
                        \/ Less(seq[h], seq[i])
                        \/ ~Less(seq[i], seq[h]) /\ h < i})
    IN  [p \in 1..n |-> seq[CHOOSE i \in 1..n : pos(i) = p]]

\* round(n / d), halves to the even neighbour as Python's round does
RoundHalfEven(n, d) ==
    LET q == n \div d
        r == n % d
    IN  IF 2 * r < d THEN q
        ELSE IF 2 * r > d THEN q + 1
        ELSE IF q % 2 = 0 THEN q ELSE q + 1

\* int(round(t.estimated_hours * 60))
duration_of(t) == RoundHalfEven(t.estimated_hours * 60, HourScale)

get_day_start_minutes(value) ==
    LET v == Strip(value)
    IN  IF v = <<>> THEN parse_hhmm_to_minutes(T0900)
        ELSE parse_hhmm_to_minutes(v)


\* mutant: no except clause around get_day_start_minutes
day_start_of_uncaught(value) == get_day_start_minutes(value)

\* the try/except around get_day_start_minutes
day_start_of(value) ==
    LET r == get_day_start_minutes(value)
    IN  IF r.ok THEN r ELSE parse_hhmm_to_minutes(T0900)


\* mutant: a start time that does not parse rejects the task
Classify_rejecting(t) ==
    IF t.estimated_hours <= 0 THEN "unscheduled"
    ELSE IF t.start_time = <<>> THEN "unscheduled"
    ELSE LET start == parse_hhmm_to_minutes(t.start_time)
         IN  IF ~start.ok THEN "rejected"
             ELSE IF Min(day_end, start.val + duration_of(t)) <= start.val
                  THEN "unscheduled"
                  ELSE "fixed"

\* the branch the classifier loop takes for task t
Classify(t) ==
    IF t.estimated_hours <= 0 THEN "unscheduled"
    ELSE IF t.start_time = <<>> THEN "unscheduled"
    ELSE LET start == parse_hhmm_to_minutes(t.start_time)
         IN  IF ~start.ok THEN "unscheduled"
             ELSE IF Min(day_end, start.val + duration_of(t)) <= start.val
                  THEN "unscheduled"
                  ELSE "fixed"

Interval(start, end, task, packed) ==
    [start |-> start, end |-> end, task |-> task, packed |-> packed]


\* mutant: the end is not cut at day_end
FixedInterval_uncut(t) ==
    LET start == parse_hhmm_to_minutes(t.start_time).val
    IN  Interval(start, start + duration_of(t), t.id, FALSE)

\* the tuple appended at line 635; the task is kept as its id
FixedInterval(t) ==
    LET start == parse_hhmm_to_minutes(t.start_time).val
    IN  Interval(start, Min(day_end, start + duration_of(t)), t.id, FALSE)

IsFixed(t) == Classify(t) = "fixed"

IsUnscheduled(t) == Classify(t) = "unscheduled"

StartLess(a, b) == a.start < b.start

\* mutant: line 637 is left out
ClassifyFixed_unsorted(ts) ==
    LET picked == SelectSeq(ts, IsFixed)
    IN  [i \in 1..Len(picked) |-> FixedInterval(picked[i])]

\* fixed_intervals after the loop and the sort of line 637
ClassifyFixed(ts) ==
    LET picked == SelectSeq(ts, IsFixed)
    IN  StableSort([i \in 1..Len(picked) |-> FixedInterval(picked[i])], StartLess)

\* unscheduled after the loop
ClassifyUnscheduled(ts) == SelectSeq(ts, IsUnscheduled)

\* mutant: the key is the type's position alone
PackKeyLess_type_only(a, b) == TypeRank(a.task_type) < TypeRank(b.task_type)

\* mutant: among tasks of one type the latest added comes first
PackKeyLess_latest_first(a, b) ==
    \/ TypeRank(a.task_type) < TypeRank(b.task_type)
    \/ TypeRank(a.task_type) = TypeRank(b.task_type) /\ a.id > b.id

PackKeyLess(a, b) ==
    \/ TypeRank(a.task_type) < TypeRank(b.task_type)
    \/ TypeRank(a.task_type) = TypeRank(b.task_type) /\ a.id < b.id

LongerFirst(a, b) == a.estimated_hours > b.estimated_hours

\* mutant: the longest task is tried first
SortUnscheduled_longest_first(us) == StableSort(us, LongerFirst)

\* unscheduled_sorted, lines 655-663
SortUnscheduled(us) == StableSort(us, PackKeyLess)

PairLess(a, b) == a[1] < b[1]

\* mutant: the end of the day is taken whatever room is left
RECURSIVE ScanOccupied_any_tail(_, _, _, _)
ScanOccupied_any_tail(occ, i, cur, duration_minutes) ==
    IF i > Len(occ)
    THEN Ok(cur)
    ELSE LET start_m == occ[i][1]
             end_m == occ[i][2]
         IN  IF end_m <= cur
             THEN ScanOccupied_any_tail(occ, i + 1, cur, duration_minutes)
             ELSE IF start_m > cur /\ (start_m - cur) >= duration_minutes
                  THEN Ok(cur)
                  ELSE ScanOccupied_any_tail(occ, i + 1, Max(cur, end_m),
                                             duration_minutes)

\* mutant: a gap before an occupied interval is taken whatever its length
RECURSIVE ScanOccupied_any_gap(_, _, _, _)
ScanOccupied_any_gap(occ, i, cur, duration_minutes) ==
    IF i > Len(occ)
    THEN IF (day_end - cur) >= duration_minutes THEN Ok(cur) ELSE None
    ELSE LET start_m == occ[i][1]
             end_m == occ[i][2]
         IN  IF end_m <= cur
             THEN ScanOccupied_any_gap(occ, i + 1, cur, duration_minutes)
             ELSE IF start_m > cur
                  THEN Ok(cur)
                  ELSE ScanOccupied_any_gap(occ, i + 1, Max(cur, end_m),
                                            duration_minutes)

\* mutant: the gap at the end of the day must be longer than the duration
RECURSIVE ScanOccupied_strict(_, _, _, _)
ScanOccupied_strict(occ, i, cur, duration_minutes) ==
    IF i > Len(occ)
    THEN IF (day_end - cur) > duration_minutes THEN Ok(cur) ELSE None
    ELSE LET start_m == occ[i][1]
             end_m == occ[i][2]
         IN  IF end_m <= cur
             THEN ScanOccupied_strict(occ, i + 1, cur, duration_minutes)
             ELSE IF start_m > cur /\ (start_m - cur) >= duration_minutes
                  THEN Ok(cur)
                  ELSE ScanOccupied_strict(occ, i + 1, Max(cur, end_m),
                                           duration_minutes)

\* the loop of find_first_slot from position i of the sorted occupied list
RECURSIVE ScanOccupied(_, _, _, _)
ScanOccupied(occ, i, cur, duration_minutes) ==
    IF i > Len(occ)
    THEN IF (day_end - cur) >= duration_minutes THEN Ok(cur) ELSE None
    ELSE LET start_m == occ[i][1]
             end_m == occ[i][2]
         IN  IF end_m <= cur
             THEN ScanOccupied(occ, i + 1, cur, duration_minutes)
             ELSE IF start_m > cur /\ (start_m - cur) >= duration_minutes
                  THEN Ok(cur)
                  ELSE ScanOccupied(occ, i + 1, Max(cur, end_m), duration_minutes)


\* mutant: the occupied list is scanned as it is, unsorted
find_first_slot_unsorted(occ, day_start, duration_minutes) ==
    IF duration_minutes <= 0 THEN None
    ELSE ScanOccupied(occ, 1, day_start, duration_minutes)

find_first_slot(occ, day_start, duration_minutes) ==
    IF duration_minutes <= 0 THEN None
    ELSE ScanOccupied(StableSort(occ, PairLess), 1, day_start, duration_minutes)

\* the controls appended to timeline_column
Control(kind, start, end, task, packed, count) ==
    [kind |-> kind, start |-> start, end |-> end, task |-> task,
     packed |-> packed, count |-> count]

EmptyBlock(start_m, end_m) == Control("empty", start_m, end_m, 0, FALSE, 0)

TaskBlock(start_m, end_m, t, packed) == Control("task", start_m, end_m, t, packed, 0)

\* "Overlap detected near hh:mm"
OverlapText(start_m) == Control("overlap", start_m, start_m, 0, FALSE, 0)

\* "n task(s) could not be placed on timeline."
NotPlacedText(n) == Control("not_placed", 0, 0, 0, FALSE, n)

add_empty_block(controls, start_m, end_m) ==
    IF end_m <= start_m THEN controls
    ELSE Append(controls, EmptyBlock(start_m, end_m))

add_task_block(controls, start_m, end_m, t, packed) ==
    Append(controls, TaskBlock(start_m, end_m, t, packed))

\* lines 747-753
add_not_placed(controls, count) ==
    IF count > 0 THEN Append(controls, NotPlacedText(count)) ELSE controls


\* mutant: a failed placement is not counted
count_not_placed_never(count, slot) == count

\* lines 668-669: the count after a turn of the packing loop
count_not_placed(count, slot) == IF ~slot.ok THEN count + 1 ELSE count


\* mutant: the empty block before a task is drawn from day_start
WalkControls_from_day_start(controls, cur, day_start, iv) ==
    IF iv.end <= day_start THEN controls
    ELSE LET start_m == IF iv.start < day_start THEN day_start ELSE iv.start
             c1 == IF start_m > cur
                   THEN add_empty_block(controls, day_start, start_m)
                   ELSE controls
             c2 == IF start_m < cur THEN Append(c1, OverlapText(start_m)) ELSE c1
         IN  add_task_block(c2, start_m, iv.end, iv.task, iv.packed)

\* mutant: the overlap test uses the interval's start before it is raised
WalkControls_own_start(controls, cur, day_start, iv) ==
    IF iv.end <= day_start THEN controls
    ELSE LET start_m == IF iv.start < day_start THEN day_start ELSE iv.start
             c1 == IF start_m > cur
                   THEN add_empty_block(controls, cur, start_m) ELSE controls
             c2 == IF iv.start < cur THEN Append(c1, OverlapText(start_m)) ELSE c1
         IN  add_task_block(c2, start_m, iv.end, iv.task, iv.packed)

\* mutant: an interval that ends by day_start is not skipped
WalkControls_no_skip(controls, cur, day_start, iv) ==
    LET start_m == IF iv.start < day_start THEN day_start ELSE iv.start
        c1 == IF start_m > cur
              THEN add_empty_block(controls, cur, start_m) ELSE controls
        c2 == IF start_m < cur THEN Append(c1, OverlapText(start_m)) ELSE c1
    IN  add_task_block(c2, start_m, iv.end, iv.task, iv.packed)

\* mutant: a block that only touches the cursor is marked as an overlap
WalkControls_touching(controls, cur, day_start, iv) ==
    IF iv.end <= day_start THEN controls
    ELSE LET start_m == IF iv.start < day_start THEN day_start ELSE iv.start
             c1 == IF start_m > cur
                   THEN add_empty_block(controls, cur, start_m) ELSE controls
             c2 == IF start_m <= cur THEN Append(c1, OverlapText(start_m)) ELSE c1
         IN  add_task_block(c2, start_m, iv.end, iv.task, iv.packed)

\* one turn of the assembler loop, lines 729-743: the controls and the cursor
WalkControls(controls, cur, day_start, iv) ==
    IF iv.end <= day_start THEN controls
    ELSE LET start_m == IF iv.start < day_start THEN day_start ELSE iv.start
             c1 == IF start_m > cur
                   THEN add_empty_block(controls, cur, start_m) ELSE controls
             c2 == IF start_m < cur THEN Append(c1, OverlapText(start_m)) ELSE c1
         IN  add_task_block(c2, start_m, iv.end, iv.task, iv.packed)


\* mutant: the cursor follows the last interval instead of the furthest end
WalkCursor_last(cur, day_start, iv) ==
    IF iv.end <= day_start THEN cur ELSE iv.end

WalkCursor(cur, day_start, iv) ==
    IF iv.end <= day_start THEN cur ELSE Max(cur, iv.end)

-----------------------------------------------------------------------------
(* The state machine *)

NoPrev == [set |-> FALSE, controls |-> <<>>]

NoShown == [set |-> FALSE, day_start |-> <<>>]

Init ==
    /\ db_tasks = {}
    /\ db_seq = 0
    /\ day_start_input = T0900
    /\ timeline = <<>>
    /\ pc = "idle"
    /\ tasks = <<>>
    /\ day_start_minutes = 0
    /\ fixed_intervals = <<>>
    /\ unscheduled = <<>>
    /\ unscheduled_sorted = <<>>
    /\ occupied = <<>>
    /\ packed_intervals = <<>>
    /\ not_placed_count = 0
    /\ intervals = <<>>
    /\ k = 0
    /\ j = 0
    /\ cursor = 0
    /\ shown = NoShown
    /\ prev = NoPrev
    /\ clock_in = 0
    /\ clock_text = <<>>
    /\ clock_out = <<>>


\* mutant: the column is not cleared
StartRefresh_keeping(rows) ==
    LET same == /\ shown.set
                /\ rows = db_tasks
                /\ day_start_input = shown.day_start
    IN  /\ prev' = IF same THEN [set |-> TRUE, controls |-> timeline] ELSE NoPrev
        /\ timeline' = timeline
        /\ pc' = "classify"
        /\ tasks' = <<>>
        /\ day_start_minutes' = 0
        /\ fixed_intervals' = <<>>
        /\ occupied' = <<>>
        /\ unscheduled' = <<>>
        /\ unscheduled_sorted' = <<>>
        /\ packed_intervals' = <<>>
        /\ not_placed_count' = 0
        /\ intervals' = <<>>
        /\ k' = 0
        /\ j' = 0
        /\ cursor' = 0
        /\ shown' = NoShown
        /\ UNCHANGED <<day_start_input, clockVars>>

\* a handler has changed the store to rows and calls refresh_tasks:
\* refresh_timeline starts, clearing the column (line 609)
StartRefresh(rows) ==
    LET same == /\ shown.set
                /\ rows = db_tasks
                /\ day_start_input = shown.day_start
    IN  /\ prev' = IF same THEN [set |-> TRUE, controls |-> timeline] ELSE NoPrev
        /\ timeline' = <<>>
        /\ pc' = "classify"
        /\ tasks' = <<>>
        /\ day_start_minutes' = 0
        /\ fixed_intervals' = <<>>
        /\ occupied' = <<>>
        /\ unscheduled' = <<>>
        /\ unscheduled_sorted' = <<>>
        /\ packed_intervals' = <<>>
        /\ not_placed_count' = 0
        /\ intervals' = <<>>
        /\ k' = 0
        /\ j' = 0
        /\ cursor' = 0
        /\ shown' = NoShown
        /\ UNCHANGED <<day_start_input, clockVars>>

\* JournalDB.add_task (lines 330-361) as any caller of the store reaches it,
\* then refresh_tasks.  The store keeps start_time as it is given; the form
\* handler (lines 976-1011) refuses beforehand a start that
\* validate_time_or_empty rejects, the store and refresh_timeline do not
\* rely on that.
AddTask ==
    /\ pc = "idle"
    /\ db_seq < MaxTasks
    /\ \E inp \in TaskInputs :
          LET ok == add_task_ok(db_tasks, current_day, inp.task_type, inp.title,
                                inp.estimated_hours)
              rows == add_task(db_tasks, db_seq + 1, current_day, inp.task_type,
                               inp.title, inp.estimated_hours, inp.start_time)
          IN  /\ db_tasks' = rows
              /\ db_seq' = IF ok THEN db_seq + 1 ELSE db_seq
              /\ StartRefresh(rows)

\* db.delete_task of a listed task, then refresh_tasks (lines 842-846)
DeleteTask ==
    /\ pc = "idle"
    /\ \E task \in db_tasks :
          LET rows == delete_task(db_tasks, task.id)
          IN  /\ db_tasks' = rows
              /\ UNCHANGED db_seq
              /\ StartRefresh(rows)

\* refresh_all with the store unchanged (startup, add_habit)
Refresh ==
    /\ pc = "idle"
    /\ UNCHANGED <<db_tasks, db_seq>>
    /\ StartRefresh(db_tasks)

\* the user edits the day-start field; nothing is refreshed
TypeDayStart ==
    /\ pc = "idle"
    /\ \E text \in DayStartInputs : day_start_input' = text
    /\ UNCHANGED <<db_tasks, db_seq, timeline, pc, tasks, day_start_minutes,
                   fixed_intervals, unscheduled,
                   unscheduled_sorted, occupied,
                   packed_intervals, not_placed_count, intervals, k, j, cursor,
                   shown, prev, clockVars>>

\* list_tasks, the day start and the classifier, lines 610-664
ClassifyTasks ==
    /\ pc = "classify"
    /\ \E ts \in {list_tasks(db_tasks, current_day)} :
       \E dsm \in {day_start_of(day_start_input)} :
       \E fixed \in {ClassifyFixed(ts)} :
          /\ tasks' = ts
          /\ day_start_minutes' = dsm.val
          /\ fixed_intervals' = fixed
          /\ occupied' = [i \in 1..Len(fixed) |-> <<fixed[i].start, fixed[i].end>>]
          /\ unscheduled' = ClassifyUnscheduled(ts)
          /\ unscheduled_sorted' = SortUnscheduled(ClassifyUnscheduled(ts))
          /\ pc' = IF dsm.ok THEN "pack" ELSE "raised"
    /\ packed_intervals' = <<>>
    /\ not_placed_count' = 0
    /\ k' = 1
    /\ UNCHANGED <<db_tasks, db_seq, day_start_input, timeline, intervals, j,
                   cursor, shown, prev, clockVars>>

\* mutant: the occupied list is kept sorted by start
PackStep_sorting ==
    /\ pc = "pack"
    /\ k <= Len(unscheduled_sorted)
    /\ \E slot \in {find_first_slot(occupied, day_start_minutes,
                                     duration_of(unscheduled_sorted[k]))} :
       LET t == unscheduled_sorted[k]
           duration == duration_of(t)
           end == Min(day_end, slot.val + duration)
       IN  IF ~slot.ok
           THEN /\ not_placed_count' = count_not_placed(not_placed_count, slot)
                /\ UNCHANGED <<packed_intervals, occupied>>
           ELSE /\ packed_intervals' =
                      Append(packed_intervals, Interval(slot.val, end, t.id, TRUE))
                /\ occupied' = StableSort(Append(occupied, <<slot.val, end>>),
                                        PairLess)
                /\ not_placed_count' = count_not_placed(not_placed_count, slot)
    /\ k' = k + 1
    /\ UNCHANGED <<db_tasks, db_seq, day_start_input, timeline, pc, tasks,
                   day_start_minutes, fixed_intervals, unscheduled,
                   unscheduled_sorted,
                   intervals, j, cursor, shown, prev, clockVars>>

\* one turn of the packing loop, lines 665-673
PackStep ==
    /\ pc = "pack"
    /\ k <= Len(unscheduled_sorted)
    /\ \E slot \in {find_first_slot(occupied, day_start_minutes,
                                     duration_of(unscheduled_sorted[k]))} :
       LET t == unscheduled_sorted[k]
           duration == duration_of(t)
           end == Min(day_end, slot.val + duration)
       IN  IF ~slot.ok
           THEN /\ not_placed_count' = count_not_placed(not_placed_count, slot)
                /\ UNCHANGED <<packed_intervals, occupied>>
           ELSE /\ packed_intervals' =
                      Append(packed_intervals, Interval(slot.val, end, t.id, TRUE))
                /\ occupied' = Append(occupied, <<slot.val, end>>)
                /\ not_placed_count' = count_not_placed(not_placed_count, slot)
    /\ k' = k + 1
    /\ UNCHANGED <<db_tasks, db_seq, day_start_input, timeline, pc, tasks,
                   day_start_minutes, fixed_intervals, unscheduled,
                   unscheduled_sorted,
                   intervals, j, cursor, shown, prev, clockVars>>

\* the pass returns: the not-placed text is appended and the locals are left
Finish(controls) ==
    /\ timeline' = add_not_placed(controls, not_placed_count)
    /\ pc' = "idle"
    /\ shown' = [set |-> TRUE, day_start |-> day_start_input]
    /\ prev' = NoPrev

\* after the packing loop: line 675, then lines 724-727
PackDone ==
    /\ pc = "pack"
    /\ k > Len(unscheduled_sorted)
    /\ LET all == StableSort(fixed_intervals \o packed_intervals, StartLess)
       IN  /\ intervals' = all
           /\ IF all = <<>>
              THEN /\ Finish(add_empty_block(timeline, day_start_minutes, day_end))
                   /\ UNCHANGED <<j, cursor>>
              ELSE /\ pc' = "walk"
                   /\ j' = 1
                   /\ cursor' = day_start_minutes
                   /\ UNCHANGED <<timeline, shown, prev>>
    /\ UNCHANGED <<db_tasks, db_seq, day_start_input, tasks, day_start_minutes,
                   fixed_intervals, unscheduled,
                   unscheduled_sorted, occupied,
                   packed_intervals, not_placed_count, k, clockVars>>

\* one turn of the assembler loop, lines 728-743
WalkStep ==
    /\ pc = "walk"
    /\ j <= Len(intervals)
    /\ timeline' = WalkControls(timeline, cursor, day_start_minutes, intervals[j])
    /\ cursor' = WalkCursor(cursor, day_start_minutes, intervals[j])
    /\ j' = j + 1
    /\ UNCHANGED <<db_tasks, db_seq, day_start_input, pc, tasks,
                   day_start_minutes, fixed_intervals, unscheduled,
                   unscheduled_sorted,
                   occupied, packed_intervals, not_placed_count, intervals, k,
                   shown, prev, clockVars>>

\* after the assembler loop: lines 744-753
WalkDone ==
    /\ pc = "walk"
    /\ j > Len(intervals)
    /\ Finish(IF cursor < day_end
              THEN add_empty_block(timeline, cursor, day_end) ELSE timeline)
    /\ UNCHANGED <<db_tasks, db_seq, day_start_input, tasks, day_start_minutes,
                   fixed_intervals, unscheduled,
                   unscheduled_sorted, occupied,
                   packed_intervals, not_placed_count, intervals, k, j, cursor,
                   clockVars>>

Next ==
    \/ AddTask
    \/ DeleteTask
    \/ Refresh
    \/ TypeDayStart
    \/ ClassifyTasks
    \/ PackStep
    \/ PackDone
    \/ WalkStep
    \/ WalkDone

Spec == Init /\ [][Next]_vars

-----------------------------------------------------------------------------
(* The clock conversions on their own *)

ClockInputs == (0 - ClockSlack) .. (24 * 60 + ClockSlack)

InitClock ==
    /\ db_tasks = {}
    /\ db_seq = 0
    /\ day_start_input = T0900
    /\ timeline = <<>>
    /\ pc = "idle"
    /\ tasks = <<>>
    /\ day_start_minutes = 0
    /\ fixed_intervals = <<>>
    /\ unscheduled = <<>>
    /\ unscheduled_sorted = <<>>
    /\ occupied = <<>>
    /\ packed_intervals = <<>>
    /\ not_placed_count = 0
    /\ intervals = <<>>
    /\ k = 0
    /\ j = 0
    /\ cursor = 0
    /\ shown = NoShown
    /\ prev = NoPrev
    /\ clock_in \in ClockInputs
    /\ clock_text = <<>>
    /\ clock_out = <<>>

\* text = minutes_to_hhmm(minutes)
FormatClock ==
    /\ clock_text = <<>>
    /\ clock_text' = minutes_to_hhmm(clock_in)
    /\ UNCHANGED <<clock_in, clock_out, schedVars>>

\* parse_hhmm_to_minutes(text)
ParseClock ==
    /\ clock_text # <<>>
    /\ clock_out = <<>>
    /\ clock_out' = <<parse_hhmm_to_minutes(clock_text)>>
    /\ UNCHANGED <<clock_in, clock_text, schedVars>>

NextClock == FormatClock \/ ParseClock

SpecClock == InitClock /\ [][NextClock]_vars

-----------------------------------------------------------------------------
(* One pass of refresh_timeline on a store filled by add_task *)

\* the arguments of the add_task calls that filled the store: the accepted
\* ones of TaskInputs, a fixed task from 10:00 to 23:30 and unscheduled
\* tasks of the last two types
PassInputs ==
    {inp \in TaskInputs : add_task_ok({}, current_day, inp.task_type, inp.title,
                                      inp.estimated_hours)}
        \cup {TaskIn("small", <<"a">>, 13500, T1000),
              TaskIn("pleasure", <<"a">>, 500, NoText),
              TaskIn("reserved", <<"a">>, 1000, NoText)}

\* the rows and the AUTOINCREMENT counter after add_task on ins[i..] in turn
RECURSIVE StoreAfter(_, _, _, _)
StoreAfter(ins, i, rows, seq) ==
    IF i > Len(ins) THEN [rows |-> rows, seq |-> seq]
    ELSE LET inp == ins[i]
             ok == add_task_ok(rows, current_day, inp.task_type, inp.title,
                               inp.estimated_hours)
         IN  StoreAfter(ins, i + 1,
                        add_task(rows, seq + 1, current_day, inp.task_type,
                                 inp.title, inp.estimated_hours, inp.start_time),
                        IF ok THEN seq + 1 ELSE seq)

\* what the day-start field holds when the pass begins
PassDayStarts == {T0900, T0800, T1000}

\* refresh_timeline has just been entered (line 609) on such a store
InitPass ==
    /\ \E n \in 0..MaxRows :
       \E ins \in [1..n -> PassInputs] :
       \E st \in {StoreAfter(ins, 1, {}, 0)} :
          /\ db_tasks = st.rows
          /\ db_seq = st.seq
    /\ day_start_input \in PassDayStarts
    /\ timeline = <<>>
    /\ pc = "classify"
    /\ tasks = <<>>
    /\ day_start_minutes = 0
    /\ fixed_intervals = <<>>
    /\ unscheduled = <<>>
    /\ unscheduled_sorted = <<>>
    /\ occupied = <<>>
    /\ packed_intervals = <<>>
    /\ not_placed_count = 0
    /\ intervals = <<>>
    /\ k = 0
    /\ j = 0
    /\ cursor = 0
    /\ shown = NoShown
    /\ prev = NoPrev
    /\ clock_in = 0
    /\ clock_text = <<>>
    /\ clock_out = <<>>

NextPass ==
    \/ ClassifyTasks
    \/ PackStep
    \/ PackDone
    \/ WalkStep
    \/ WalkDone

SpecPass == InitPass /\ [][NextPass]_vars

-----------------------------------------------------------------------------
(* The task store on its own: add_task, update_task, delete_task *)

\* the days the callers name
StoreDays == {"today", "tomorrow"}

\* the task types the callers name: the two limited ones, one that is not
\* limited and one that is not a type
StoreTypes == {"focus", "main", "small", "bogus"}

\* add_task(day, task_type, ...), lines 330-361
StoreAdd ==
    /\ pc = "idle"
    /\ db_seq < MaxStoreTasks
    /\ \E day \in StoreDays, type \in StoreTypes :
          /\ db_tasks' = add_task(db_tasks, db_seq + 1, day, type, <<"a">>,
                                  1000, NoText)
          /\ db_seq' = IF add_task_ok(db_tasks, day, type, <<"a">>, 1000)
                       THEN db_seq + 1 ELSE db_seq
    /\ UNCHANGED <<day_start_input, timeline, pc, tasks, day_start_minutes,
                   fixed_intervals, unscheduled, unscheduled_sorted, occupied,
                   packed_intervals, not_placed_count, intervals, k, j, cursor,
                   shown, prev, clockVars>>

\* update_task(task_id, day, task_type, ...), lines 397-440: the limit is
\* checked for the day the caller names, the UPDATE finds the row by its id
StoreUpdate ==
    /\ pc = "idle"
    /\ \E row \in db_tasks, day \in StoreDays, type \in StoreTypes :
          db_tasks' = update_task(db_tasks, row.id, day, type, <<"a">>, 1000,
                                  NoText)
    /\ UNCHANGED <<db_seq, day_start_input, timeline, pc, tasks,
                   day_start_minutes, fixed_intervals, unscheduled,
                   unscheduled_sorted, occupied, packed_intervals,
                   not_placed_count, intervals, k, j, cursor, shown, prev,
                   clockVars>>

\* delete_task(task_id), lines 442-444
StoreDelete ==
    /\ pc = "idle"
    /\ \E row \in db_tasks : db_tasks' = delete_task(db_tasks, row.id)
    /\ UNCHANGED <<db_seq, day_start_input, timeline, pc, tasks,
                   day_start_minutes, fixed_intervals, unscheduled,
                   unscheduled_sorted, occupied, packed_intervals,
                   not_placed_count, intervals, k, j, cursor, shown, prev,
                   clockVars>>

NextStore ==
    \/ StoreAdd
    \/ StoreUpdate
    \/ StoreDelete

\* from the empty store of Init
SpecStore == Init /\ [][NextStore]_vars

-----------------------------------------------------------------------------
(* Vocabulary of the properties *)

\* a pass has finished and nothing was started since: the locals are its values
Ran == pc = "idle" /\ shown.set

IsBlock(c) == c.kind \in {"empty", "task"}

IsTaskBlock(c) == c.kind = "task"

\* the emitted blocks, empty and task, in emission order
Blocks == SelectSeq(timeline, IsBlock)

TaskBlocks == SelectSeq(timeline, IsTaskBlock)

\* positions of timeline holding a block
BlockAt == {p \in 1..Len(timeline) : IsBlock(timeline[p])}

TaskBlockAt == {p \in 1..Len(timeline) : IsTaskBlock(timeline[p])}

\* the furthest minute the blocks before position p have reached
ReachedBefore(p) ==
    LET ends == {timeline[q].end : q \in {r \in BlockAt : r < p}}
    IN  IF ends = {} THEN day_start_minutes
        ELSE Max(day_start_minutes, CHOOSE e \in ends : \A f \in ends : f <= e)

\* the control just before position p is an overlap marker
Marked(p) == p > 1 /\ timeline[p - 1].kind = "overlap"

HasMarker == \E p \in 1..Len(timeline) : timeline[p].kind = "overlap"

Overlapping(a, b) == a.start < b.end /\ b.start < a.end

\* the positions of the task blocks shown for task id
BlocksOf(id) == {p \in TaskBlockAt : timeline[p].task = id}

-----------------------------------------------------------------------------
(* C1: gaplessness *)

-----------------------------------------------------------------------------
(* C2: overlap among task blocks *)

\* C2 as stated: no two task blocks overlap.
C2_NoTaskBlocksOverlap ==
    Ran =>
        \A p, q \in TaskBlockAt :
            p # q => ~Overlapping(timeline[p], timeline[q])

\* C2 as amended: two task blocks overlap only when both belong to fixed
\* tasks; an auto-placed block overlaps no other task block.
C2_OnlyFixedBlocksOverlap ==
    Ran =>
        \A p, q \in TaskBlockAt :
            (p # q /\ Overlapping(timeline[p], timeline[q])) =>
                (~timeline[p].packed /\ ~timeline[q].packed)

\* a finished pass showing two overlapping fixed blocks and an auto-placed one
C2_Witness ==
    /\ Ran
    /\ \E p, q \in TaskBlockAt : p # q /\ Overlapping(timeline[p], timeline[q])
    /\ \E p \in TaskBlockAt : timeline[p].packed

-----------------------------------------------------------------------------
(* C3: fixed tasks in the output *)

\* the tasks with a valid start time and a positive duration
FixedTaskAt ==
    {i \in 1..Len(tasks) : /\ parse_hhmm_to_minutes(tasks[i].start_time).ok
                           /\ duration_of(tasks[i]) > 0}

OwnStart(t) == parse_hhmm_to_minutes(t.start_time).val

OwnEnd(t) == OwnStart(t) + duration_of(t)

\* C3 as stated: every fixed task is shown as exactly one task block whose
\* bounds are the task's own start and start + duration.
C3_FixedShownAsIs ==
    Ran =>
        \A i \in FixedTaskAt :
            /\ Cardinality(BlocksOf(tasks[i].id)) = 1
            /\ \A p \in BlocksOf(tasks[i].id) :
                  /\ timeline[p].start = OwnStart(tasks[i])
                  /\ timeline[p].end = OwnEnd(tasks[i])

\* C3 as amended: a fixed task whose interval, cut at 1440, ends after
\* dayStart is shown as exactly one task block, from max(s, dayStart) to
\* min(1440, s + d) and not marked auto-placed, whatever it overlaps; a fixed
\* task that ends at or before dayStart is not shown.
C3_FixedShownClipped ==
    Ran =>
        \A i \in FixedTaskAt :
            IF Min(day_end, OwnEnd(tasks[i])) <= day_start_minutes
            THEN BlocksOf(tasks[i].id) = {}
            ELSE /\ Cardinality(BlocksOf(tasks[i].id)) = 1
                 /\ \A p \in BlocksOf(tasks[i].id) :
                       /\ timeline[p].start =
                             Max(OwnStart(tasks[i]), day_start_minutes)
                       /\ timeline[p].end = Min(day_end, OwnEnd(tasks[i]))
                       /\ ~timeline[p].packed

\* a finished pass with a fixed task shown behind an overlap marker, one cut
\* at both ends and one that ended before dayStart
C3_Witness ==
    /\ Ran
    /\ HasMarker
    /\ \E i \in FixedTaskAt : BlocksOf(tasks[i].id) = {}
    /\ \E i \in FixedTaskAt :
          /\ OwnStart(tasks[i]) < day_start_minutes
          /\ OwnEnd(tasks[i]) > day_end
          /\ BlocksOf(tasks[i].id) # {}

-----------------------------------------------------------------------------
(* C4: unplaced accounting *)

UnscheduledAt == {i \in 1..Len(tasks) : IsUnscheduled(tasks[i])}

AutoBlockAt == {p \in TaskBlockAt : timeline[p].packed}

NotPlacedAt == {p \in 1..Len(timeline) : timeline[p].kind = "not_placed"}

\* C4: every turn of the packing loop either places its task or adds one to
\* the count; after the pass the auto-placed blocks and the count add up to
\* the unscheduled tasks, a task is shown at most once, the count is what
\* the closing text reports, and no pass is left by an exception.
C4_UnplacedAccounting ==
    /\ pc # "raised"
    /\ pc = "pack" => Len(packed_intervals) + not_placed_count = k - 1
    /\ Ran =>
          /\ Cardinality(AutoBlockAt) + not_placed_count
                = Cardinality(UnscheduledAt)
          /\ Len(packed_intervals) = Cardinality(AutoBlockAt)
          /\ \A i \in UnscheduledAt :
                /\ Cardinality(BlocksOf(tasks[i].id)) <= 1
                /\ \A p \in BlocksOf(tasks[i].id) : timeline[p].packed
          /\ Cardinality({i \in UnscheduledAt : BlocksOf(tasks[i].id) = {}})
                = not_placed_count
          /\ IF not_placed_count > 0
             THEN /\ NotPlacedAt = {Len(timeline)}
                  /\ timeline[Len(timeline)].count = not_placed_count
             ELSE NotPlacedAt = {}

\* a finished pass that placed one unscheduled task and left two unplaced
C4_Witness ==
    /\ Ran
    /\ Cardinality(AutoBlockAt) = 1
    /\ not_placed_count = 2

-----------------------------------------------------------------------------
(* C5: tasks without a usable start time or duration *)

\* some start s >= day_start leaves [s, s + d) inside the day and clear of occ
HasGap(occ, day_start, d) ==
    \E s \in day_start..(day_end - d) :
        \A i \in 1..Len(occ) : ~(s < occ[i][2] /\ occ[i][1] < s + d)

\* the tasks with a malformed or missing start time or a duration <= 0
UnusableAt ==
    {i \in 1..Len(tasks) : \/ ~parse_hhmm_to_minutes(tasks[i].start_time).ok
                           \/ duration_of(tasks[i]) <= 0}

\* the task of the packing loop's last turn, and whether that turn placed it
LastTried == unscheduled_sorted[k - 1]

LastPlaced ==
    /\ packed_intervals # <<>>
    /\ packed_intervals[Len(packed_intervals)].task = LastTried.id

\* every unusable task is in the packer's list, once, and has had its turn
\* when the pass is over
UnusableAreTried ==
    (pc \in {"pack", "walk"} \/ Ran) =>
        /\ \A i \in UnusableAt :
              Cardinality({u \in 1..Len(unscheduled_sorted) :
                              unscheduled_sorted[u] = tasks[i]}) = 1
        /\ pc # "pack" => k = Len(unscheduled_sorted) + 1

\* C5 as stated: such a task is handed to the packer, and is placed whenever
\* the day has a gap at least as long as its duration.
C5_PlacedWheneverGap ==
    /\ UnusableAreTried
    /\ (pc = "pack" /\ k > 1 /\ ~LastPlaced) =>
          ~HasGap(occupied, day_start_minutes, duration_of(LastTried))

\* C5 as amended: such a task is handed to the packer; one whose duration is
\* positive is placed, as an auto-placed interval of its full duration at or
\* after dayStart, whenever the day then has a free gap at least that long;
\* one whose duration is 0 or less is tried but never placed, and is counted
\* as not placed.
C5_PlacedWheneverPositiveGap ==
    /\ UnusableAreTried
    /\ (pc = "pack" /\ k > 1) =>
          LET d == duration_of(LastTried)
              last == packed_intervals[Len(packed_intervals)]
          IN  /\ (d > 0 /\ ~LastPlaced) => ~HasGap(occupied, day_start_minutes, d)
              /\ d <= 0 => (~LastPlaced /\ not_placed_count > 0)
              /\ LastPlaced => /\ last.packed
                               /\ last.start >= day_start_minutes
                               /\ last.end = last.start + d
                               /\ d > 0

\* the packer has just placed a task whose start time is malformed, and
\* before it left a task of duration 0 unplaced although the day was free
C5_Witness ==
    /\ pc = "pack"
    /\ k > 1
    /\ LastPlaced
    /\ ~parse_hhmm_to_minutes(LastTried.start_time).ok
    /\ LastTried.start_time # <<>>
    /\ not_placed_count > 0
    /\ \E u \in 1..(k - 1) : duration_of(unscheduled_sorted[u]) <= 0

-----------------------------------------------------------------------------
(* C6: overlap markers in the assembler walk *)

\* the furthest end among dayStart and the intervals walked so far
WalkedReach ==
    LET ends == {intervals[i].end : i \in 1..(j - 1)}
    IN  IF ends = {} THEN day_start_minutes
        ELSE Max(day_start_minutes, CHOOSE e \in ends : \A f \in ends : f <= e)

MarkerCount(controls) ==
    Cardinality({p \in 1..Len(controls) : controls[p].kind = "overlap"})

\* what C6 asks of one turn of the walk on an interval that is not skipped
C6_Turn ==
    (pc = "walk" /\ j <= Len(intervals)
        /\ intervals[j].end > day_start_minutes) =>
        LET iv == intervals[j]
            start_m == Max(iv.start, day_start_minutes)
            n == Len(timeline')
            block == TaskBlock(start_m, iv.end, iv.task, iv.packed)
        IN  /\ cursor = WalkedReach
            /\ SubSeq(timeline', 1, Len(timeline)) = timeline
            /\ timeline'[n] = block
            /\ IF start_m < cursor
               THEN /\ n = Len(timeline) + 2
                    /\ timeline'[n - 1] = OverlapText(start_m)
               ELSE MarkerCount(timeline') = MarkerCount(timeline)
            /\ cursor' = Max(cursor, iv.end)

\* C6: in every turn of the walk, an interval whose clipped start is before
\* the cursor (the maximum of dayStart and the ends walked so far) gets an
\* overlap marker at that start immediately before its task block; the
\* controls already emitted stay as they are, the block keeps the interval's
\* bounds, the cursor becomes max(cursor, end), and no marker is emitted when
\* start >= cursor.
C6_OverlapMarker == [][C6_Turn]_vars

\* the walk has just emitted a marker and the block of an interval that lies
\* inside an earlier one, and the cursor has stayed at the earlier end
C6_Witness ==
    /\ pc = "walk"
    /\ j > 1
    /\ Len(timeline) >= 3
    /\ timeline[Len(timeline) - 1].kind = "overlap"
    /\ timeline[Len(timeline)].kind = "task"
    /\ timeline[Len(timeline)].end < cursor

-----------------------------------------------------------------------------
(* C7: the pass is repeatable and leaves its inputs alone *)

\* what C7 asks of every step: inside a pass the store, the day-start field
\* and the task list handed to the pass stay as they are, and a pass that
\* repeats the inputs of the pass before it ends with the same controls
C7_Step ==
    /\ pc # "idle" => UNCHANGED <<db_tasks, db_seq, day_start_input>>
    /\ pc \in {"pack", "walk"} => tasks' = tasks
    /\ (pc # "idle" /\ pc' = "idle" /\ prev.set) => timeline' = prev.controls

\* C7: running the pass again on the same task list and day-start yields the
\* same blocks, markers and not-placed count in the same order, and the pass
\* never changes its inputs.
C7_Idempotent == [][C7_Step]_vars

\* a pass repeating the inputs of the one before it is under way, and the
\* earlier output held an overlap marker and a not-placed count
C7_Witness ==
    /\ pc = "walk"
    /\ prev.set
    /\ Len(tasks) = MaxTasks
    /\ \E p \in 1..Len(prev.controls) : prev.controls[p].kind = "overlap"
    /\ \E p \in 1..Len(prev.controls) : prev.controls[p].kind = "not_placed"

-----------------------------------------------------------------------------
(* C8: the day start a pass uses *)

\* the day-start text the running or the last pass read
UsedDayStart == IF pc = "idle" THEN shown.day_start ELSE day_start_input

\* C8: no pass is left by an exception; the day start a pass uses lies in
\* 0..1440; it is 540 whenever the text is empty, blank or does not parse,
\* and the parsed value otherwise.
C8_DayStartFallback ==
    /\ pc # "raised"
    /\ (pc \in {"pack", "walk"} \/ Ran) =>
          /\ day_start_minutes \in 0..day_end
          /\ UsedDayStart \in {NoText, Blank, T2400, BadText} =>
                day_start_minutes = 540
          /\ IF parse_hhmm_to_minutes(UsedDayStart).ok
             THEN day_start_minutes = parse_hhmm_to_minutes(UsedDayStart).val
             ELSE day_start_minutes = 540

\* a pass has finished on a day start that does not parse
C8_Witness ==
    /\ Ran
    /\ shown.day_start = T2400
    /\ day_start_minutes = 540
    /\ TaskBlockAt # {}

-----------------------------------------------------------------------------
(* C9, C10: the clock conversions, under SpecClock *)

\* C9: for every hour in 0..23 and minute in 0..59, parsing the text that
\* minutes_to_hhmm gives for hour*60+minute returns hour*60+minute.
C9_RoundTrip ==
    (clock_out # <<>> /\ clock_in \in 0..(24 * 60 - 1)) =>
        clock_out[1] = Ok(clock_in)

\* the last minute of the day has been formatted and parsed back
C9_Witness ==
    /\ clock_in = 23 * 60 + 59
    /\ clock_text = <<"2", "3", ":", "5", "9">>
    /\ clock_out # <<>>

\* C10: an input below 0 formats as "00:00", an input of 1440 or more as
\* "24:00", and m in 0..1439 as the two-digit m div 60, a colon and the
\* two-digit m mod 60.
C10_FormatClamps ==
    clock_text # <<>> =>
        /\ clock_in < 0 => clock_text = <<"0", "0", ":", "0", "0">>
        /\ clock_in >= 24 * 60 => clock_text = <<"2", "4", ":", "0", "0">>
        /\ clock_in \in 0..(24 * 60 - 1) =>
              clock_text = << DigitChar((clock_in \div 60) \div 10),
                              DigitChar((clock_in \div 60) % 10),
                              ":",
                              DigitChar((clock_in % 60) \div 10),
                              DigitChar((clock_in % 60) % 10) >>

\* an input beyond the day has been formatted
C10_Witness ==
    /\ clock_in > 24 * 60
    /\ clock_text = <<"2", "4", ":", "0", "0">>

-----------------------------------------------------------------------------
(* C11: find_first_slot is first fit, under SpecPass *)

\* the occupied list the last turn of the packing loop searched
OccupiedBefore ==
    IF LastPlaced THEN SubSeq(occupied, 1, Len(occupied) - 1) ELSE occupied

\* [s, s + d) lies in [day_start, 1440] and meets no interval of occ
Fits(occ, day_start, d, s) ==
    /\ s >= day_start
    /\ s + d <= day_end
    /\ \A i \in 1..Len(occ) : ~(s < occ[i][2] /\ occ[i][1] < s + d)

\* C11: for a duration d > 0 the slot find_first_slot returns is the smallest
\* s >= dayStart with s + d <= 1440 whose [s, s + d) meets no interval of the
\* occupied list, and it returns no slot exactly when there is no such s,
\* also when occupied intervals overlap each other or begin before dayStart.
C11_FirstFit ==
    (pc = "pack" /\ k > 1 /\ duration_of(LastTried) > 0) =>
        LET d == duration_of(LastTried)
            occ == OccupiedBefore
            slot == packed_intervals[Len(packed_intervals)].start
        IN  IF LastPlaced
            THEN /\ Fits(occ, day_start_minutes, d, slot)
                 /\ \A s \in day_start_minutes..(slot - 1) :
                       ~Fits(occ, day_start_minutes, d, s)
                 /\ occupied[Len(occupied)] = <<slot, slot + d>>
            ELSE \A s \in day_start_minutes..day_end :
                    ~Fits(occ, day_start_minutes, d, s)

\* a slot was found behind two occupied intervals that overlap each other,
\* the first of which begins before dayStart
C11_Witness ==
    /\ pc = "pack"
    /\ k > 1
    /\ LastPlaced
    /\ packed_intervals[Len(packed_intervals)].start > day_start_minutes
    /\ \E a, b \in 1..Len(OccupiedBefore) :
          /\ a # b
          /\ OccupiedBefore[a][1] < day_start_minutes
          /\ OccupiedBefore[a][1] < OccupiedBefore[b][2]
          /\ OccupiedBefore[b][1] < OccupiedBefore[a][2]

-----------------------------------------------------------------------------
(* C12: the classifier, under SpecPass *)

\* the position of the task with this id in the list given to the pass
PositionOf(id) == CHOOSE i \in 1..Len(tasks) : tasks[i].id = id

\* what C12 asks of a task for it to be fixed
FixedCondition(t) ==
    /\ t.estimated_hours > 0
    /\ t.start_time # <<>>
    /\ parse_hhmm_to_minutes(t.start_time).ok
    /\ Min(1440, OwnEnd(t)) > OwnStart(t)

\* C12: a task becomes the fixed interval (start, min(1440, start+duration),
\* task, not auto-placed) if and only if its estimated_hours is positive, its
\* start time is non-empty and parses, and min(1440, start+duration) > start;
\* every other task is unscheduled; each task is in exactly one of the two
\* lists; fixed_intervals is in ascending order of start with list order kept
\* on equal starts; unscheduled is in list order.
C12_Classifier ==
    (pc \in {"pack", "walk"} \/ Ran) =>
        /\ Len(fixed_intervals) + Len(unscheduled) = Len(tasks)
        /\ \A i \in 1..Len(tasks) :
              LET t == tasks[i]
                  inFixed == {f \in 1..Len(fixed_intervals) :
                                 fixed_intervals[f].task = t.id}
                  inUnscheduled == {u \in 1..Len(unscheduled) :
                                       unscheduled[u] = t}
              IN  IF FixedCondition(t)
                  THEN /\ Cardinality(inFixed) = 1
                       /\ inUnscheduled = {}
                       /\ \A f \in inFixed :
                             fixed_intervals[f] =
                                 [start |-> OwnStart(t),
                                  end |-> Min(1440, OwnEnd(t)),
                                  task |-> t.id, packed |-> FALSE]
                  ELSE /\ inFixed = {}
                       /\ Cardinality(inUnscheduled) = 1
        /\ \A a, b \in 1..Len(fixed_intervals) :
              a < b =>
                 \/ fixed_intervals[a].start < fixed_intervals[b].start
                 \/ /\ fixed_intervals[a].start = fixed_intervals[b].start
                    /\ PositionOf(fixed_intervals[a].task)
                          < PositionOf(fixed_intervals[b].task)
        /\ \A a, b \in 1..Len(unscheduled) :
              a < b => PositionOf(unscheduled[a].id) < PositionOf(unscheduled[b].id)

\* the classifier has put a later task of the list first among two fixed
\* intervals, and left unscheduled a task whose start parses and whose
\* estimate is positive but rounds to no minute
C12_Witness ==
    /\ pc = "pack"
    /\ k = 1
    /\ Len(fixed_intervals) = 2
    /\ PositionOf(fixed_intervals[1].task) > PositionOf(fixed_intervals[2].task)
    /\ \E u \in 1..Len(unscheduled) :
          /\ unscheduled[u].estimated_hours > 0
          /\ parse_hhmm_to_minutes(unscheduled[u].start_time).ok

-----------------------------------------------------------------------------
(* C13: the occupied list while packing, under SpecPass *)

PairsOverlap(a, b) == a[1] < b[2] /\ b[1] < a[2]

\* C13 as stated: whenever the packer has placed a task, no two intervals
\* of the occupied list overlap.
C13_OccupiedDisjoint ==
    (pc = "pack" /\ k > 1 /\ LastPlaced) =>
        \A a, b \in 1..Len(occupied) :
            a # b => ~PairsOverlap(occupied[a], occupied[b])

\* C13 as amended: whenever the packer has placed a task, two intervals of
\* the occupied list overlap only if both are pairs of fixed intervals; an
\* interval the packer added overlaps no other interval of the list.
C13_OnlyFixedOverlapInOccupied ==
    (pc = "pack" /\ k > 1 /\ LastPlaced) =>
        \A a, b \in 1..Len(occupied) :
            (a # b /\ PairsOverlap(occupied[a], occupied[b])) =>
                /\ a <= Len(fixed_intervals)
                /\ b <= Len(fixed_intervals)
                /\ occupied[a] = <<fixed_intervals[a].start, fixed_intervals[a].end>>
                /\ occupied[b] = <<fixed_intervals[b].start, fixed_intervals[b].end>>

\* the packer has placed a task while two fixed intervals overlap
C13_Witness ==
    /\ pc = "pack"
    /\ k > 1
    /\ LastPlaced
    /\ \E a, b \in 1..Len(fixed_intervals) :
          a # b /\ PairsOverlap(occupied[a], occupied[b])

-----------------------------------------------------------------------------
(* C14: bounds of intervals and task blocks, under SpecPass *)

WithinDay(x) == 0 <= x.start /\ x.start < x.end /\ x.end <= 1440

\* C14: every fixed interval, every auto-placed interval and every task
\* block, whose start has been raised to dayStart, satisfies
\* 0 <= start < end <= 1440.
C14_IntervalBounds ==
    /\ \A f \in 1..Len(fixed_intervals) : WithinDay(fixed_intervals[f])
    /\ \A q \in 1..Len(packed_intervals) : WithinDay(packed_intervals[q])
    /\ \A i \in 1..Len(intervals) : WithinDay(intervals[i])
    /\ \A p \in TaskBlockAt :
          /\ WithinDay(timeline[p])
          /\ timeline[p].start >= day_start_minutes

\* a finished pass that cut a fixed interval at 1440, showed a task block
\* from dayStart for an interval beginning earlier, and skipped a fixed
\* interval that ended before dayStart
C14_Witness ==
    /\ Ran
    /\ \E i \in FixedTaskAt : OwnEnd(tasks[i]) > 1440
    /\ \E f \in 1..Len(fixed_intervals), p \in TaskBlockAt :
          /\ timeline[p].task = fixed_intervals[f].task
          /\ fixed_intervals[f].start < timeline[p].start
    /\ \E f \in 1..Len(fixed_intervals) :
          fixed_intervals[f].end <= day_start_minutes

-----------------------------------------------------------------------------
(* C15: what the packer leaves alone, under SpecPass *)

PairOf(iv) == <<iv.start, iv.end>>

PairsOf(ivs) == [i \in 1..Len(ivs) |-> PairOf(ivs[i])]

\* what C15 asks of every step taken from inside the packing loop
C15_Step ==
    pc = "pack" =>
        /\ fixed_intervals' = fixed_intervals
        /\ occupied = PairsOf(fixed_intervals) \o PairsOf(packed_intervals)
        /\ IF k' = k + 1
           THEN IF Len(packed_intervals') = Len(packed_intervals) + 1
                THEN /\ occupied' =
                          Append(occupied,
                                 PairOf(packed_intervals'[Len(packed_intervals')]))
                     /\ not_placed_count' = not_placed_count
                ELSE /\ occupied' = occupied
                     /\ packed_intervals' = packed_intervals
                     /\ not_placed_count' = not_placed_count + 1
           ELSE occupied' = occupied /\ packed_intervals' = packed_intervals

\* C15: packing never moves, resizes, removes or reorders a fixed interval:
\* through every turn fixed_intervals stays as it is and the occupied list
\* is the pairs of the fixed intervals, in order, followed by one pair per
\* placed task; a turn that places nothing leaves the occupied list as it is.
C15_PackerFrame == [][C15_Step]_vars

\* the packer has placed a task in front of a fixed interval and then failed
\* to place another
C15_Witness ==
    /\ pc = "pack"
    /\ k > 2
    /\ not_placed_count > 0
    /\ \E f \in 1..Len(fixed_intervals), q \in 1..Len(packed_intervals) :
          packed_intervals[q].end <= fixed_intervals[f].start
    /\ ~LastPlaced

-----------------------------------------------------------------------------
(* C16: the order of packing, under SpecPass *)

\* category rank as C16 gives it
RankOf(type) ==
    CASE type = "focus" -> 0
      [] type = "main" -> 1
      [] type = "small" -> 2
      [] type = "pleasure" -> 3
      [] type = "reserved" -> 4
      [] OTHER -> 5

KeyBefore(a, b) ==
    \/ RankOf(a.task_type) < RankOf(b.task_type)
    \/ RankOf(a.task_type) = RankOf(b.task_type) /\ a.id < b.id

\* C16: the packer tries the unscheduled tasks in ascending order of
\* (category rank, id), whatever their order in the list given to the pass:
\* its list holds each unscheduled task once in that order, the tasks that
\* have had their turn are exactly those with a smaller key than the task
\* whose turn is next, and the placed intervals follow the same order.
C16_PackingOrder ==
    (pc \in {"pack", "walk"} \/ Ran) =>
        /\ Len(unscheduled_sorted) = Len(unscheduled)
        /\ \A u \in 1..Len(unscheduled) :
              \E v \in 1..Len(unscheduled_sorted) :
                  unscheduled_sorted[v] = unscheduled[u]
        /\ \A a, b \in 1..Len(unscheduled_sorted) :
              a < b => KeyBefore(unscheduled_sorted[a], unscheduled_sorted[b])
        /\ (pc = "pack" /\ k <= Len(unscheduled_sorted)) =>
              /\ Cardinality({u \in 1..Len(unscheduled) :
                     KeyBefore(unscheduled[u], unscheduled_sorted[k])}) = k - 1
              /\ Len(packed_intervals) + not_placed_count = k - 1
        /\ \A q \in 1..Len(packed_intervals) :
              \E u \in 1..(k - 1) :
                  unscheduled_sorted[u].id = packed_intervals[q].task
        /\ \A a, b \in 1..Len(packed_intervals) :
              a < b => KeyBefore(tasks[PositionOf(packed_intervals[a].task)],
                                 tasks[PositionOf(packed_intervals[b].task)])

\* the packer has placed three tasks of two types, one of them ahead of a
\* task that comes before it in the list given to the pass
C16_Witness ==
    /\ pc = "pack"
    /\ Len(packed_intervals) = 3
    /\ \E a, b \in 1..Len(unscheduled) :
          /\ a < b
          /\ KeyBefore(unscheduled[b], unscheduled[a])
    /\ Cardinality({unscheduled[u].task_type : u \in 1..Len(unscheduled)}) = 2

-----------------------------------------------------------------------------
(* C17: first fit in key order is not optimal, under SpecPass *)

\* the number of tasks the packing loop (lines 664-673) leaves unplaced when
\* it tries the tasks of order from position i on, with occ occupied
RECURSIVE UnplacedIn(_, _, _, _)
UnplacedIn(order, i, occ, day_start) ==
    IF i > Len(order) THEN 0
    ELSE LET duration == duration_of(order[i])
             slot == find_first_slot(occ, day_start, duration)
         IN  IF ~slot.ok
             THEN 1 + UnplacedIn(order, i + 1, occ, day_start)
             ELSE UnplacedIn(order, i + 1,
                             Append(occ, <<slot.val,
                                           Min(day_end, slot.val + duration)>>),
                             day_start)

\* the orders in which the unscheduled tasks can be tried
OrdersOf(us) ==
    {[i \in 1..Len(us) |-> us[f[i]]] :
        f \in {g \in [1..Len(us) -> 1..Len(us)] :
                  \A a, b \in 1..Len(us) : a # b => g[a] # g[b]}}

\* some order of the unscheduled tasks places all of them
SomeOrderPlacesAll ==
    \E order \in OrdersOf(unscheduled_sorted) :
        UnplacedIn(order, 1, PairsOf(fixed_intervals), day_start_minutes) = 0

\* day start 09:00, one fixed interval 10:00-23:30, and two unscheduled
\* tasks: a main task of 30 minutes and a small task of 60 minutes
C17_Scenario ==
    /\ day_start_minutes = 540
    /\ PairsOf(fixed_intervals) = << <<600, 1410>> >>
    /\ Len(unscheduled) = 2
    /\ unscheduled[1].task_type = "main"
    /\ duration_of(unscheduled[1]) = 30
    /\ unscheduled[2].task_type = "small"
    /\ duration_of(unscheduled[2]) = 60

\* C17: there are a day start, fixed intervals and unscheduled tasks for
\* which the packer leaves a task unplaced although trying the same tasks in
\* another order with the same first-fit rule places them all: after every
\* pass the count is the one first fit gives in key order, and on the inputs
\* of C17_Scenario that count is 1 while trying the small task before the
\* main task leaves none.
C17_GreedyNotOptimal ==
    Ran =>
        /\ not_placed_count =
              UnplacedIn(unscheduled_sorted, 1, PairsOf(fixed_intervals),
                         day_start_minutes)
        /\ C17_Scenario =>
              /\ not_placed_count = 1
              /\ UnplacedIn(<<unscheduled[2], unscheduled[1]>>, 1,
                            PairsOf(fixed_intervals), day_start_minutes) = 0

\* a finished pass left a task unplaced where another order places all
C17_Witness ==
    /\ Ran
    /\ C17_Scenario
    /\ not_placed_count > 0
    /\ SomeOrderPlacesAll

-----------------------------------------------------------------------------
(* C18: auto-placed intervals, under SpecPass *)

\* the intervals of the pass, fixed then auto-placed
AllIntervals == fixed_intervals \o packed_intervals

\* C18: every auto-placed interval starts at or after dayStart, is exactly
\* as long as its task's duration, and overlaps no other interval, fixed or
\* auto-placed; so no overlap marker precedes an auto-placed block, and a
\* marker before a fixed block is due to an earlier fixed block, every
\* auto-placed block before it having ended by its start.
C18_AutoPlaced ==
    /\ \A a \in 1..Len(AllIntervals) :
          AllIntervals[a].packed =>
              /\ AllIntervals[a].start >= day_start_minutes
              /\ AllIntervals[a].end - AllIntervals[a].start =
                    duration_of(tasks[PositionOf(AllIntervals[a].task)])
              /\ AllIntervals[a].end <= 1440
              /\ \A b \in 1..Len(AllIntervals) :
                    a # b => ~Overlapping(AllIntervals[a], AllIntervals[b])
    /\ \A p \in TaskBlockAt :
          /\ timeline[p].packed =>
                /\ ~Marked(p)
                /\ \A r \in TaskBlockAt :
                      r # p => ~Overlapping(timeline[p], timeline[r])
          /\ Marked(p) =>
                /\ \E r \in TaskBlockAt : /\ r < p
                                          /\ ~timeline[r].packed
                                          /\ timeline[p].start < timeline[r].end
                /\ \A r \in TaskBlockAt :
                      (r < p /\ timeline[r].packed) =>
                          timeline[r].end <= timeline[p].start

\* a finished pass shows an auto-placed block, then two fixed blocks that
\* overlap, with a marker before the second
C18_Witness ==
    /\ Ran
    /\ \E r, p \in TaskBlockAt :
          /\ r < p
          /\ timeline[r].packed
          /\ Marked(p)
          /\ timeline[r].end <= timeline[p].start

-----------------------------------------------------------------------------
(* C19: the blocks cover the day, under SpecPass *)

EmptyBlockAt == {p \in BlockAt : timeline[p].kind = "empty"}

\* C19: after a pass every minute of [dayStart, 1440) lies in some block,
\* no block leaves [dayStart, 1440], every empty block has start < end, and
\* an empty block meets no task block and no other empty block; this also
\* with fixed tasks that overlap or start before dayStart.
C19_Coverage ==
    Ran =>
        /\ \A minute \in day_start_minutes..(1440 - 1) :
              \E p \in BlockAt : /\ timeline[p].start <= minute
                                 /\ minute < timeline[p].end
        /\ \A p \in BlockAt : /\ day_start_minutes <= timeline[p].start
                              /\ timeline[p].end <= 1440
        /\ \A p \in EmptyBlockAt :
              /\ timeline[p].start < timeline[p].end
              /\ \A q \in BlockAt :
                    q # p => ~Overlapping(timeline[p], timeline[q])

\* a finished pass shows, from dayStart, the block of a fixed task that
\* began earlier, a marked block overlapping it, and an empty block
C19_Witness ==
    /\ Ran
    /\ HasMarker
    /\ EmptyBlockAt # {}
    /\ \E f \in 1..Len(fixed_intervals), p \in TaskBlockAt :
          /\ timeline[p].task = fixed_intervals[f].task
          /\ fixed_intervals[f].start < day_start_minutes
          /\ timeline[p].start = day_start_minutes

-----------------------------------------------------------------------------
(* C20: contiguity when the fixed intervals do not overlap, under SpecPass *)

\* the fixed intervals that end after dayStart, and the start each is shown at
ShownFixed == {f \in 1..Len(fixed_intervals) :
                  fixed_intervals[f].end > day_start_minutes}

ClippedStart(f) == Max(fixed_intervals[f].start, day_start_minutes)

\* no two fixed intervals overlap once their starts are raised to dayStart
NoFixedOverlap ==
    \A a, b \in ShownFixed :
        a # b => ~(/\ ClippedStart(a) < fixed_intervals[b].end
                   /\ ClippedStart(b) < fixed_intervals[a].end)

\* C20: when no two fixed intervals overlap after clipping to dayStart, the
\* blocks of a pass are exactly contiguous: the first starts at dayStart,
\* the last ends at 1440, each block ends where the next starts, and no
\* overlap marker is emitted.
C20_ContiguousWithoutOverlap ==
    (Ran /\ NoFixedOverlap) =>
        /\ Len(Blocks) > 0
        /\ Blocks[1].start = day_start_minutes
        /\ Blocks[Len(Blocks)].end = 1440
        /\ \A i \in 1..(Len(Blocks) - 1) : Blocks[i].end = Blocks[i + 1].start
        /\ ~HasMarker

\* a finished pass on two fixed intervals that overlap before dayStart only,
\* one of them shown from dayStart
C20_Witness ==
    /\ Ran
    /\ NoFixedOverlap
    /\ \E a, b \in 1..Len(fixed_intervals) :
          a # b /\ Overlapping(fixed_intervals[a], fixed_intervals[b])
    /\ \E f \in ShownFixed : fixed_intervals[f].start < day_start_minutes
    /\ TaskBlockAt # {}

-----------------------------------------------------------------------------
(* C21: later unscheduled tasks do not matter to earlier ones, under SpecPass *)

\* the slots the packing loop (lines 664-673) finds, None for a task it
\* cannot place, when it tries the tasks of order from position i on
RECURSIVE SlotsIn(_, _, _, _)
SlotsIn(order, i, occ, day_start) ==
    IF i > Len(order) THEN <<>>
    ELSE LET duration == duration_of(order[i])
             slot == find_first_slot(occ, day_start, duration)
         IN  <<slot>> \o
             SlotsIn(order, i + 1,
                     IF slot.ok
                     THEN Append(occ, <<slot.val,
                                        Min(day_end, slot.val + duration)>>)
                     ELSE occ,
                     day_start)

\* the unscheduled tasks in ascending (category rank, id) order
KeyOrdered(us) ==
    CHOOSE o \in OrdersOf(us) :
        \A a, b \in 1..Len(o) : a < b => KeyBefore(o[a], o[b])

\* seq without the elements at the positions in gone
RECURSIVE Without(_, _, _)
Without(seq, i, gone) ==
    IF i > Len(seq) THEN <<>>
    ELSE (IF i \in gone THEN <<>> ELSE <<seq[i]>>) \o Without(seq, i + 1, gone)

\* what the pass did with task t: its slot, or None when it was not placed
OutcomeOf(t) ==
    IF \E q \in 1..Len(packed_intervals) : packed_intervals[q].task = t.id
    THEN Ok(packed_intervals[CHOOSE q \in 1..Len(packed_intervals) :
                                packed_intervals[q].task = t.id].start)
    ELSE None

\* C21: the slot of an unscheduled task, or its being unplaced, depends only
\* on dayStart, the fixed intervals and the unscheduled tasks before it in
\* (category rank, id) order: a pass on the input without any of the tasks
\* that come later in that order gives every earlier task the same outcome.
C21_LaterTasksIrrelevant ==
    Ran =>
        LET ord == KeyOrdered(unscheduled)
        IN  \A u \in 1..Len(ord) :
            \A gone \in SUBSET ((u + 1)..Len(ord)) :
                SlotsIn(Without(ord, 1, gone), 1, PairsOf(fixed_intervals),
                        day_start_minutes)[u] = OutcomeOf(ord[u])

\* a finished pass that could not place a task of positive duration and
\* placed one that comes after it
C21_Witness ==
    /\ Ran
    /\ Len(fixed_intervals) > 0
    /\ LET ord == KeyOrdered(unscheduled)
       IN  \E u, v \in 1..Len(ord) :
              /\ u < v
              /\ ~OutcomeOf(ord[u]).ok
              /\ duration_of(ord[u]) > 0
              /\ OutcomeOf(ord[v]).ok

-----------------------------------------------------------------------------
(* C22: the limits on task types, under SpecStore *)

\* the rows of a day that have a type
RowsOf(day, type) == {r \in db_tasks : r.day = day /\ r.task_type = type}

\* C22: from an empty store, after any sequence of add_task, update_task and
\* delete_task, every day holds at most 1 task of type focus and at most 2
\* of type main, a call that would exceed a limit leaving the rows as they
\* were.
C22_TypeLimits ==
    \A day \in StoreDays :
        /\ Cardinality(RowsOf(day, "focus")) <= 1
        /\ Cardinality(RowsOf(day, "main")) <= 2

=============================================================================
